---- MODULE Spec2Model ----
(***************************************************************************)
(* A model of DealBot's build pipeline (scripts/build.py): the affiliate   *)
(* URL rewriter, the text normalizer, the extractive summarizer, the       *)
(* remote summarizer adapter, the slug generator, the feed ingestor and    *)
(* the site renderer.                                                      *)
(*                                                                         *)
(* Python strings are TLA+ strings; TLC evaluates Len, SubSeq, Head, Tail  *)
(* and \o on them, so every string function below works on the characters  *)
(* as the code does.                                                       *)
(***************************************************************************)
EXTENDS Integers, Sequences, FiniteSets, TLC

VARIABLES
    pc,       \* position of the running function: "call", "done", or a loop position
    CONFIG,   \* the configuration document (build.py:10)
    args,     \* the arguments of the function under call
    env,      \* what the outside world answers: credential, remote responses
    ret,      \* the returned value
    items,    \* fetch_posts: the accumulated RawPosts; render_site: the selected ones
    feed,     \* fetch_posts: the parsed feed being walked
    fi,       \* fetch_posts: index of the feed in CONFIG.feeds
    ei,       \* fetch_posts: index of the entry in feed.entries
    posts     \* render_site: the RenderedPost descriptors of the index

vars == <<pc, CONFIG, args, env, ret, items, feed, fi, ei, posts>>

None == "<none>"

(***************************************************************************)
(* Python's str operations.                                                *)
(***************************************************************************)
At(s, i) == SubSeq(s, i, i)

Slice(s, n) == SubSeq(s, 1, IF n < Len(s) THEN n ELSE Len(s))

From(s, i) == SubSeq(s, i, Len(s))

\* s.find(sub, start), 1-based; 0 when absent
Find(s, sub, start) ==
    LET hits == {i \in start..(Len(s) - Len(sub) + 1) : SubSeq(s, i, i + Len(sub) - 1) = sub}
    IN  IF hits = {} THEN 0 ELSE CHOOSE i \in hits : \A k \in hits : i <= k

\* sub in s
In(sub, s) == Find(s, sub, 1) > 0

UpperChars == "ABCDEFGHIJKLMNOPQRSTUVWXYZ"
LowerChars == "abcdefghijklmnopqrstuvwxyz"
DigitChars == "0123456789"

LowerChar(c) ==
    LET k == Find(UpperChars, c, 1) IN IF k > 0 THEN At(LowerChars, k) ELSE c

\* the two halves of a string, so that a recursion over a long string stays shallow
Left(s) == SubSeq(s, 1, Len(s) \div 2)
Right(s) == SubSeq(s, Len(s) \div 2 + 1, Len(s))

RECURSIVE lower(_)
lower(s) ==
    IF s = "" THEN ""
    ELSE IF Len(s) = 1 THEN LowerChar(s)
    ELSE lower(Left(s)) \o lower(Right(s))

IsSpace(c) == c \in {" ", "\t", "\n", "\r"}

lstrip(s) ==
    LET kept == {i \in 1..Len(s) : ~IsSpace(At(s, i))}
    IN  IF kept = {} THEN "" ELSE From(s, CHOOSE i \in kept : \A k \in kept : i <= k)

rstrip(s) ==
    LET kept == {i \in 1..Len(s) : ~IsSpace(At(s, i))}
    IN  IF kept = {} THEN "" ELSE SubSeq(s, 1, CHOOSE i \in kept : \A k \in kept : i >= k)

strip(s) == lstrip(rstrip(s))

\* s.split(sep): every occurrence of sep separates
RECURSIVE split(_, _)
split(s, sep) ==
    LET k == Find(s, sep, 1)
    IN  IF k = 0 THEN <<s>>
        ELSE <<SubSeq(s, 1, k - 1)>> \o split(From(s, k + Len(sep)), sep)

\* s.split(sep, 1): only the first occurrence separates
split1(s, sep) ==
    LET k == Find(s, sep, 1)
    IN  IF k = 0 THEN <<s>> ELSE <<SubSeq(s, 1, k - 1), From(s, k + Len(sep))>>

\* sep.join(parts)
RECURSIVE join(_, _)
join(parts, sep) ==
    IF parts = <<>> THEN ""
    ELSE IF Len(parts) = 1 THEN parts[1]
    ELSE parts[1] \o sep \o join(Tail(parts), sep)

\* s.replace(old, new) for a one-character old
RECURSIVE replace(_, _, _)
replace(s, old, new) ==
    IF Len(s) <= 1 THEN (IF s = old THEN new ELSE s)
    ELSE replace(Left(s), old, new) \o replace(Right(s), old, new)

RECURSIVE Rep(_, _)
Rep(s, n) ==
    IF n <= 0 THEN ""
    ELSE LET half == Rep(s, n \div 2) IN half \o half \o (IF n % 2 = 1 THEN s ELSE "")

Range(f) == {f[i] : i \in DOMAIN f}

(***************************************************************************)
(* An insertion-ordered dict: a sequence of <<key, value>> pairs with      *)
(* distinct keys.                                                          *)
(***************************************************************************)
Keys(d) == {d[i][1] : i \in DOMAIN d}

Get(d, k) == LET i == CHOOSE i \in DOMAIN d : d[i][1] = k IN d[i][2]

\* d[k] = v: an existing key keeps its place, a new one goes last
Put(d, k, v) ==
    IF k \in Keys(d)
    THEN [i \in DOMAIN d |-> IF d[i][1] = k THEN <<k, v>> ELSE d[i]]
    ELSE Append(d, <<k, v>>)

(***************************************************************************)
(* urllib.parse, as normalize_url_with_affiliate uses it.  The percent     *)
(* table covers the reserved characters of the modelled URLs.              *)
(***************************************************************************)
SchemeChars == LowerChars \o UpperChars \o DigitChars \o "+-."
SafeChars == LowerChars \o UpperChars \o DigitChars \o "_.-~"
PctChars == <<" ", "+", "/", "=", "&", "%", "?", ":", "#", "[", "]">>
PctCodes == <<"20", "2B", "2F", "3D", "26", "25", "3F", "3A", "23", "5B", "5D">>

AllIn(s, chars) == \A i \in 1..Len(s) : In(At(s, i), chars)

\* urllib.parse.unquote on a string whose '+' were already made spaces
RECURSIVE unquote(_)
unquote(s) ==
    IF s = "" THEN ""
    ELSE LET code == SubSeq(s, 2, 3)
             hit == {k \in DOMAIN PctCodes : lower(PctCodes[k]) = lower(code)}
         IN  IF Head(s) = "%" /\ Len(s) >= 3 /\ hit # {}
             THEN PctChars[CHOOSE k \in hit : TRUE] \o unquote(From(s, 4))
             ELSE Head(s) \o unquote(Tail(s))

\* urllib.parse.quote_plus
RECURSIVE quote_plus(_)
quote_plus(s) ==
    IF s = "" THEN ""
    ELSE LET c == Head(s)
             hit == {k \in DOMAIN PctChars : PctChars[k] = c}
         IN  (IF In(c, SafeChars) THEN c
              ELSE IF c = " " THEN "+"
              ELSE IF hit # {} THEN "%" \o PctCodes[CHOOSE k \in hit : TRUE]
              ELSE "%" \o c) \o quote_plus(Tail(s))

\* urllib.parse.urlparse: [raised |-> TRUE] stands for the ValueError it raises
\* on a netloc with an unbalanced bracket
urlparse(u) ==
    LET colon  == Find(u, ":", 1)
        hasSch == /\ colon > 1
                  /\ In(Head(u), LowerChars \o UpperChars)
                  /\ AllIn(SubSeq(u, 1, colon - 1), SchemeChars)
        scheme == IF hasSch THEN lower(SubSeq(u, 1, colon - 1)) ELSE ""
        r1     == IF hasSch THEN From(u, colon + 1) ELSE u
        hasNet == Slice(r1, 2) = "//"
        ends   == {i \in 3..Len(r1) : At(r1, i) \in {"/", "?", "#"}}
        delim  == IF ends = {} THEN Len(r1) + 1 ELSE CHOOSE i \in ends : \A k \in ends : i <= k
        netloc == IF hasNet THEN SubSeq(r1, 3, delim - 1) ELSE ""
        r2     == IF hasNet THEN From(r1, delim) ELSE r1
        hash   == Find(r2, "#", 1)
        frag   == IF hash > 0 THEN From(r2, hash + 1) ELSE ""
        r3     == IF hash > 0 THEN SubSeq(r2, 1, hash - 1) ELSE r2
        qm     == Find(r3, "?", 1)
        query  == IF qm > 0 THEN From(r3, qm + 1) ELSE ""
        path   == IF qm > 0 THEN SubSeq(r3, 1, qm - 1) ELSE r3
    IN  IF hasNet /\ (In("[", netloc) # In("]", netloc))
        THEN [raised |-> TRUE]
        ELSE [raised |-> FALSE, scheme |-> scheme, netloc |-> netloc, path |-> path,
              query |-> query, fragment |-> frag]

\* urllib.parse.urlunparse
urlunparse(p) ==
    LET u1 == IF p.netloc # ""
              THEN "//" \o p.netloc \o
                   (IF p.path # "" /\ Head(p.path) # "/" THEN "/" ELSE "") \o p.path
              ELSE p.path
        u2 == IF p.scheme # "" THEN p.scheme \o ":" \o u1 ELSE u1
        u3 == IF p.query # "" THEN u2 \o "?" \o p.query ELSE u2
    IN  IF p.fragment # "" THEN u3 \o "#" \o p.fragment ELSE u3

\* urllib.parse.parse_qs with its defaults (keep_blank_values=False): a dict
\* from each name to the list of its values, fields without "=" or with an
\* empty value left out
RECURSIVE parse_qs_fields(_, _)
parse_qs_fields(q, fields) ==
    IF fields = <<>> THEN q
    ELSE LET nv    == split1(fields[1], "=")
             name  == unquote(replace(nv[1], "+", " "))
             value == unquote(replace(nv[2], "+", " "))
             q2    == IF Len(nv) # 2 \/ nv[2] = "" THEN q
                      ELSE IF name \in Keys(q) THEN Put(q, name, Append(Get(q, name), value))
                      ELSE Put(q, name, <<value>>)
         IN  parse_qs_fields(q2, Tail(fields))

parse_qs(query) == IF query = "" THEN <<>> ELSE parse_qs_fields(<<>>, split(query, "&"))

\* urllib.parse.urlencode of a dict of strings
urlencode(d) ==
    join([i \in DOMAIN d |-> quote_plus(d[i][1]) \o "=" \o quote_plus(d[i][2])], "&")

(***************************************************************************)
(* normalize_url_with_affiliate (build.py:21-41)                           *)
(***************************************************************************)
\* lines 30-35: merge the parameters of the tracking fragment into q
RECURSIVE merge_qs(_, _)
merge_qs(q, kvs) ==
    IF kvs = <<>> THEN q
    ELSE LET kv == kvs[1]
             p  == split1(kv, "=")
         IN  IF strip(kv) = "" \/ ~In("=", kv) THEN merge_qs(q, Tail(kvs))
             ELSE merge_qs(Put(q, p[1], <<p[2]>>), Tail(kvs))

\* line 27 without its test of the fragment
domain_matches_any_fragment(domain, host, qs) == In(domain, host)

\* line 27: the test that selects a domain
domain_matches(domain, host, qs) == In(domain, host) /\ qs # ""

\* lines 28-38: the URL rewritten with the tracking fragment qs
apply_affiliate(parsed, qs) ==
    LET q     == merge_qs(parse_qs(parsed.query), split(qs, "&"))
        new_q == urlencode([i \in DOMAIN q |-> <<q[i][1], q[i][2][1]>>])
    IN  urlunparse([parsed EXCEPT !.query = new_q])

\* lines 26-38: the first matching domain decides
RECURSIVE affiliate_loop(_, _, _, _)
affiliate_loop(url_, parsed, host, aff_map) ==
    IF aff_map = <<>> THEN url_
    ELSE IF domain_matches(aff_map[1][1], host, aff_map[1][2])
         THEN apply_affiliate(parsed, aff_map[1][2])
         ELSE affiliate_loop(url_, parsed, host, Tail(aff_map))

normalize_url_with_affiliate(url_, config) ==
    LET parsed == urlparse(url_)
    IN  IF parsed.raised THEN url_
        ELSE affiliate_loop(url_, parsed, lower(parsed.netloc), config.affiliate_map)

(***************************************************************************)
(* The rewriter on its own: a URL and a configuration are drawn, the       *)
(* function is called once.                                                *)
(***************************************************************************)
MaxParams == 2

RECURSIVE SeqsUpTo(_, _)
SeqsUpTo(S, n) ==
    IF n = 0 THEN {<<>>}
    ELSE LET shorter == SeqsUpTo(S, n - 1)
         IN  shorter \cup {Append(q, x) : q \in shorter, x \in S}

UrlParams == {"x=1", "x=2", "t=0", "e=", "k", "u=a%2Fb"}
UrlQueries == {join(q, "&") : q \in SeqsUpTo(UrlParams, MaxParams)}
UrlHosts == {"a.fr", "www.A.fr", "c.de", "[a.fr"}
UrlPaths == {"", "/p"}
Urls ==
    {pre \o h \o p \o (IF q = "" THEN "" ELSE "?" \o q) :
        pre \in {"https://", ""}, h \in UrlHosts, p \in UrlPaths, q \in UrlQueries}

AffiliateMaps ==
    { <<>>,
      << <<"a.fr", "t=1">> >>,
      << <<"a", "t=1&u=2">>, <<"a.fr", "t=9">> >>,
      << <<"A.fr", "t=1">>, <<"fr", "z=3">> >>,
      << <<"a.fr", "">>, <<"de", "t=1&&k& &v=a b">> >> }

\* affiliate_map is the dict of line 25, in its order: an absent or null map
\* is the empty one there ("or {}")
NoConfig == [affiliate_map |-> <<>>, keywords |-> <<>>, feeds |-> <<>>,
             has_daily_post_limit |-> TRUE, daily_post_limit |-> 12]

Idle ==
    /\ env = None /\ items = <<>> /\ feed = None /\ fi = 0 /\ ei = 0 /\ posts = <<>>

InitUrl ==
    /\ pc = "call"
    /\ CONFIG \in {[NoConfig EXCEPT !.affiliate_map = m] : m \in AffiliateMaps}
    /\ args \in {[url |-> u] : u \in Urls}
    /\ ret = None
    /\ Idle

CallNormalize ==
    /\ pc = "call"
    /\ ret' = normalize_url_with_affiliate(args.url, CONFIG)
    /\ pc' = "done"
    /\ UNCHANGED <<CONFIG, args, env, items, feed, fi, ei, posts>>

SpecUrl == InitUrl /\ [][CallNormalize]_vars

\* What the claims say of a URL and a configuration.
ContainsCI(host, domain) == In(lower(domain), lower(host))

ConfiguredMap == CONFIG.affiliate_map

\* the configured domains, in order, that the host contains and whose fragment is non-empty
Applicable(host) ==
    {i \in DOMAIN ConfiguredMap :
        ContainsCI(host, ConfiguredMap[i][1]) /\ ConfiguredMap[i][2] # ""}

FirstApplicable(host) == CHOOSE i \in Applicable(host) : \A k \in Applicable(host) : i <= k

\* the <<key, value>> pairs a query string or tracking fragment carries
PairsOf(query) ==
    LET fields == split(query, "&")
    IN  {<<unquote(replace(split1(fields[i], "=")[1], "+", " ")),
           IF Len(split1(fields[i], "=")) = 2
           THEN unquote(replace(split1(fields[i], "=")[2], "+", " ")) ELSE "">> :
            i \in {k \in DOMAIN fields : strip(fields[k]) # ""}}

LiteralPairsOf(fragment) ==
    LET fields == split(fragment, "&")
    IN  {<<split1(fields[i], "=")[1], split1(fields[i], "=")[2]>> :
            i \in {k \in DOMAIN fields : In("=", fields[k])}}

KeysOf(pairs) == {p[1] : p \in pairs}

\* C3: a URL on an affiliate host keeps scheme, host and path, keeps every
\* key of its query (with an original value unless the fragment sets the
\* key) and gains every key=value pair of the tracking fragment.
C3_QuerySuperset ==
    (pc = "done" /\ ~urlparse(args.url).raised) =>
        LET before == urlparse(args.url)
            after  == urlparse(ret)
        IN  Applicable(before.netloc) # {} =>
              LET added == LiteralPairsOf(ConfiguredMap[FirstApplicable(before.netloc)][2])
                  old   == PairsOf(before.query)
                  new   == PairsOf(after.query)
              IN  /\ ~after.raised
                  /\ after.scheme = before.scheme
                  /\ after.netloc = before.netloc
                  /\ after.path = before.path
                  /\ \A k \in KeysOf(old) : k \in KeysOf(new)
                  /\ \A k \in KeysOf(old) \ KeysOf(added) :
                        \A p \in new : p[1] = k => p \in old
                  /\ added \subseteq new

\* C4: a URL that matches no configured domain with a non-empty fragment,
\* or that cannot be parsed, comes back unchanged.
C4_UnchangedWhenNoMatch ==
    (pc = "done" /\ (urlparse(args.url).raised \/ Applicable(urlparse(args.url).netloc) = {}))
        => ret = args.url

C4_Witness ==
    /\ pc = "done"
    /\ ret = args.url
    /\ ConfiguredMap # <<>>
    /\ \/ urlparse(args.url).raised /\ \E i \in DOMAIN ConfiguredMap :
              In(ConfiguredMap[i][1], args.url) /\ ConfiguredMap[i][2] # ""
       \/ /\ ~urlparse(args.url).raised
          /\ Applicable(urlparse(args.url).netloc) = {}
          /\ \E i \in DOMAIN ConfiguredMap :
                ContainsCI(urlparse(args.url).netloc, ConfiguredMap[i][1])
          /\ In("e=", args.url)

\* C5: exactly the first configured domain found in the host, compared
\* without regard to letter case on either side, is applied.
C5_FirstMatchCaseInsensitive ==
    (pc = "done" /\ ~urlparse(args.url).raised) =>
        LET parsed == urlparse(args.url)
        IN  Applicable(parsed.netloc) # {} =>
              ret = apply_affiliate(parsed, ConfiguredMap[FirstApplicable(parsed.netloc)][2])

(***************************************************************************)
(* extractive_summary (build.py:50-64)                                     *)
(***************************************************************************)
IsSentenceEnd(c) == c \in {".", "!", "?"}

\* line 56: re.split(r"(?<=[.!?])\s+", text): every whitespace run that
\* follows a sentence end separates
RECURSIVE re_split_sentences(_)
re_split_sentences(t) ==
    LET starts == {i \in 2..Len(t) : IsSpace(At(t, i)) /\ IsSentenceEnd(At(t, i - 1))}
    IN  IF starts = {} THEN <<t>>
        ELSE LET i    == CHOOSE i \in starts : \A k \in starts : i <= k
                 rest == lstrip(From(t, i))
             IN  <<SubSeq(t, 1, i - 1)>> \o re_split_sentences(rest)

\* lines 59-63, the loop with the wrong budget: the separating space is not counted
RECURSIVE summary_loop_no_separator(_, _, _, _)
summary_loop_no_separator(parts, out, length, max_chars) ==
    IF parts = <<>> \/ length + Len(parts[1]) > max_chars THEN out
    ELSE summary_loop_no_separator(Tail(parts), Append(out, parts[1]),
                                   length + Len(parts[1]), max_chars)

\* lines 59-63: the greedy loop
RECURSIVE summary_loop(_, _, _, _)
summary_loop(parts, out, length, max_chars) ==
    IF parts = <<>> \/ length + Len(parts[1]) > max_chars THEN out
    ELSE summary_loop(Tail(parts), Append(out, parts[1]),
                      length + Len(parts[1]) + 1, max_chars)

extractive_summary(text_, max_chars) ==
    LET t   == strip(text_)
        out == summary_loop(re_split_sentences(t), <<>>, 0, max_chars)
    IN  IF Len(t) <= max_chars THEN t
        ELSE IF join(out, " ") # "" THEN join(out, " ")
        ELSE Slice(t, max_chars)

\* the default of max_chars (line 50)
DefaultMaxChars == 420

(***************************************************************************)
(* The summarizer on its own: a text and a budget are drawn.               *)
(***************************************************************************)
MaxTextLen == 5
MaxBudget == 5

RECURSIVE StringsUpTo(_, _)
StringsUpTo(chars, n) ==
    IF n = 0 THEN {""}
    ELSE LET shorter == StringsUpTo(chars, n - 1)
         IN  shorter \cup {t \o c : t \in shorter, c \in chars}

SummaryTexts == StringsUpTo({"a", ".", "?", " "}, MaxTextLen)

InitSummary ==
    /\ pc = "call"
    /\ CONFIG = NoConfig
    /\ args \in {[text |-> t, max_chars |-> m] : t \in SummaryTexts, m \in 0..MaxBudget}
    /\ ret = None
    /\ Idle

CallExtractiveSummary ==
    /\ pc = "call"
    /\ ret' = extractive_summary(args.text, args.max_chars)
    /\ pc' = "done"
    /\ UNCHANGED <<CONFIG, args, env, items, feed, fi, ei, posts>>

SpecSummary == InitSummary /\ [][CallExtractiveSummary]_vars

\* the first k sentence units of a text, joined by single spaces
FirstUnits(t, k) == join(SubSeq(re_split_sentences(t), 1, k), " ")

\* how many leading units fit the budget together
FittingUnits(t, m) ==
    LET n  == Len(re_split_sentences(t))
        ok == {k \in 0..n : \A j \in 1..k : Len(FirstUnits(t, j)) <= m}
    IN  CHOOSE k \in ok : \A j \in ok : j <= k

\* C6: the summary never exceeds max_chars; a text that fits is returned
\* trimmed and verbatim; otherwise the result is the longest run of leading
\* sentence units that fits with its separating spaces, and the first
\* max_chars characters of the trimmed text when not even one unit fits.
C6_SummaryWithinBudget ==
    pc = "done" =>
        LET t == strip(args.text)
            m == args.max_chars
        IN  /\ Len(ret) <= m
            /\ Len(t) <= m => ret = t
            /\ (Len(t) > m /\ FittingUnits(t, m) > 0) => ret = FirstUnits(t, FittingUnits(t, m))
            /\ (Len(t) > m /\ FittingUnits(t, m) = 0) => ret = Slice(t, m)

C6_Witness ==
    /\ pc = "done"
    /\ Len(strip(args.text)) > args.max_chars
    /\ Len(re_split_sentences(strip(args.text))) >= 2
    /\ FittingUnits(strip(args.text), args.max_chars) = 1
    /\ Len(ret) = args.max_chars - 1

(***************************************************************************)
(* slugify (build.py:101-103)                                              *)
(***************************************************************************)
\* \w of Python's re on str: letters, digits and the underscore (over the
\* ASCII characters modelled here)
IsWordChar(c) == In(c, LowerChars \o UpperChars \o DigitChars \o "_")

\* line 102: re.sub(r"[^\w\- ]+", "", s)
RECURSIVE remove_non_slug_chars(_)
remove_non_slug_chars(s) ==
    IF s = "" THEN ""
    ELSE (IF IsWordChar(Head(s)) \/ Head(s) \in {"-", " "} THEN Head(s) ELSE "")
         \o remove_non_slug_chars(Tail(s))

\* line 103 left out: hyphen runs stay
keep_hyphen_runs(s) == s

\* line 103: re.sub(r"-+", "-", s)
RECURSIVE collapse_hyphens(_)
collapse_hyphens(s) ==
    IF Len(s) < 2 THEN s
    ELSE IF Head(s) = "-" /\ At(s, 2) = "-" THEN collapse_hyphens(Tail(s))
    ELSE Head(s) \o collapse_hyphens(Tail(s))

slugify(s) ==
    collapse_hyphens(replace(strip(remove_non_slug_chars(lower(s))), " ", "-"))

(***************************************************************************)
(* The slug generator on its own: a title is drawn.                        *)
(***************************************************************************)
MaxTitleLen == 4

SlugTitles == StringsUpTo({"a", "B", "1", "_", "-", " ", "!", "\t"}, MaxTitleLen)

InitSlug ==
    /\ pc = "call"
    /\ CONFIG = NoConfig
    /\ args \in {[s |-> t] : t \in SlugTitles}
    /\ ret = None
    /\ Idle

CallSlugify ==
    /\ pc = "call"
    /\ ret' = slugify(args.s)
    /\ pc' = "done"
    /\ UNCHANGED <<CONFIG, args, env, items, feed, fi, ei, posts>>

SpecSlug == InitSlug /\ [][CallSlugify]_vars

\* C7, as stated: a slug holds only a-z, 0-9 and hyphens, and no two
\* hyphens in a row.
C7_SlugAlphabetAsStated ==
    pc = "done" =>
        /\ AllIn(ret, LowerChars \o DigitChars \o "-")
        /\ ~In("--", ret)

\* C7, amended: a slug holds only lower-case letters, digits, underscores
\* and hyphens (no space, no upper-case letter, nothing else), and no two
\* hyphens in a row.
C7_SlugAlphabet ==
    pc = "done" =>
        /\ AllIn(ret, LowerChars \o DigitChars \o "_-")
        /\ ~In("--", ret)

C7_Witness ==
    /\ pc = "done"
    /\ In("_", ret)
    /\ In("-", ret)
    /\ In("B", args.s)
    /\ In("  ", args.s) \/ In("- ", args.s) \/ In("--", args.s)

(***************************************************************************)
(* ai_summarize (build.py:66-99)                                           *)
(*                                                                         *)
(* The remote service's answer is a record: kind says how far the call     *)
(* got, content is data["choices"][0]["message"]["content"] of an answer   *)
(* that has one.                                                           *)
(***************************************************************************)
TitleLimit == 96
HeuristicTitleLimit == 85

\* what makes lines 82-87 raise: requests.post (connection error, timeout),
\* raise_for_status (non-2xx), r.json() (body that is not JSON), and the
\* lookups of line 87 (KeyError, IndexError)
RaisingKinds ==
    {"connection_error", "timeout", "http_error", "invalid_json",
     "no_choices", "empty_choices", "no_message", "no_content"}

\* str.splitlines, over "\n"
splitlines(s) ==
    IF s = "" THEN <<>>
    ELSE LET parts == split(s, "\n")
         IN  IF parts[Len(parts)] = "" THEN SubSeq(parts, 1, Len(parts) - 1) ELSE parts

\* lines 82-97 with the first line guarded: an empty answer yields an empty pair
remote_summary_empty_ok(response) ==
    IF response.kind \in RaisingKinds THEN [raised |-> TRUE]
    ELSE LET content == strip(response.content)
             parts   == split1(content, "\n\n")
             lines   == splitlines(content)
         IN  IF Len(parts) = 2
             THEN [raised |-> FALSE,
                   value |-> <<Slice(strip(parts[1]), TitleLimit), strip(parts[2])>>]
             ELSE IF lines = <<>> THEN [raised |-> FALSE, value |-> <<"", "">>]
             ELSE [raised |-> FALSE,
                   value |-> <<Slice(strip(Slice(lines[1], HeuristicTitleLimit)), TitleLimit),
                               strip(join(Tail(lines), "\n"))>>]

\* lines 82-97: the body of the try; [raised |-> TRUE] stands for the
\* exception it ends with (lines[0] of an empty answer is an IndexError)
remote_summary(response) ==
    IF response.kind \in RaisingKinds THEN [raised |-> TRUE]
    ELSE LET content == strip(response.content)
             parts   == split1(content, "\n\n")
             lines   == splitlines(content)
         IN  IF Len(parts) = 2
             THEN [raised |-> FALSE,
                   value |-> <<Slice(strip(parts[1]), TitleLimit), strip(parts[2])>>]
             ELSE IF lines = <<>> THEN [raised |-> TRUE]
             ELSE [raised |-> FALSE,
                   value |-> <<Slice(strip(Slice(lines[1], HeuristicTitleLimit)), TitleLimit),
                               strip(join(Tail(lines), "\n"))>>]

\* lines 70 and 99
local_summary(title, text_) ==
    <<Slice(title, TitleLimit), extractive_summary(text_, DefaultMaxChars)>>

\* the returned record says whether an exception left the call
ai_summarize(title, text_, api_key, response) ==
    IF api_key = "" THEN [raised |-> FALSE, value |-> local_summary(title, text_)]
    ELSE LET r == remote_summary(response)
         IN  IF r.raised THEN [raised |-> FALSE, value |-> local_summary(title, text_)]
             ELSE r

(***************************************************************************)
(* The adapter on its own: a title, a text and a credential are drawn; the *)
(* service answers when it is called.                                      *)
(***************************************************************************)
Overrun == 1

AiTitles ==
    {"", "Deal du jour"} \cup {Rep("T", n) : n \in (TitleLimit - Overrun)..(TitleLimit + Overrun)}

AiTexts ==
    {"", " Big deal. Buy now! "}
      \cup {Rep("a", n) : n \in (DefaultMaxChars - Overrun)..(DefaultMaxChars + Overrun)}
      \cup {Rep("Nine ch.  ", 41) \o Rep("b", n) : n \in 10..(10 + Overrun)}

AiContents ==
    {"", " \n ", "Titre\n\nUn resume.", "Titre seul", " Titre\nligne 2\nligne 3 ",
     "\n\nResume"}
      \cup {Rep("x", n) \o "\n\nfin" : n \in (TitleLimit - Overrun)..(TitleLimit + Overrun)}
      \cup {Rep("x", n) \o "\nfin" :
                n \in (HeuristicTitleLimit - Overrun)..(HeuristicTitleLimit + Overrun)}

Responses ==
    {[kind |-> k, content |-> ""] : k \in RaisingKinds}
      \cup {[kind |-> "ok", content |-> c] : c \in AiContents}

NotRequested == [kind |-> "not_requested", content |-> ""]

InitAi ==
    /\ pc = "call"
    /\ CONFIG = NoConfig
    /\ args \in {[title |-> t, text |-> x] : t \in AiTitles, x \in AiTexts}
    /\ env \in {[api_key |-> k, response |-> NotRequested] : k \in {"", "sk-key"}}
    /\ ret = [raised |-> FALSE, value |-> <<"", "">>]
    /\ items = <<>> /\ feed = None /\ fi = 0 /\ ei = 0 /\ posts = <<>>

CallAiSummarize ==
    /\ pc = "call"
    /\ \E r \in Responses :
          /\ env' = [env EXCEPT !.response = IF env.api_key = "" THEN NotRequested ELSE r]
          /\ ret' = ai_summarize(args.title, args.text, env.api_key, r)
    /\ pc' = "done"
    /\ UNCHANGED <<CONFIG, args, items, feed, fi, ei, posts>>

SpecAi == InitAi /\ [][CallAiSummarize]_vars

\* the failures the claim lists
RemoteFailed(response) ==
    \/ response.kind \in RaisingKinds
    \/ response.kind = "ok" /\ response.content = ""

\* C1: with a credential, a remote call that fails at any step lets no
\* exception out and returns the first 96 characters of the source title
\* with extractive_summary(text).
C1_FallbackOnRemoteFailure ==
    (pc = "done" /\ env.api_key # "" /\ RemoteFailed(env.response)) =>
        /\ ~ret.raised
        /\ ret.value = <<SubSeq(args.title, 1, IF Len(args.title) < 96 THEN Len(args.title) ELSE 96),
                         extractive_summary(args.text, DefaultMaxChars)>>

C1_Witness ==
    /\ pc = "done"
    /\ env.api_key # ""
    /\ env.response = [kind |-> "ok", content |-> ""]
    /\ Len(args.title) > 96
    /\ Len(strip(args.text)) > DefaultMaxChars
    /\ Len(ret.value[1]) = 96
    /\ Len(ret.value[2]) \in 1..DefaultMaxChars
    /\ In(" ", ret.value[2])

(***************************************************************************)
(* clean_text (build.py:43-48)                                             *)
(*                                                                         *)
(* The markup is read as BeautifulSoup's html.parser reads it: a tag ends  *)
(* a text node, the content of script and style elements is dropped, each  *)
(* text node is stripped and the non-empty ones are joined by one space.   *)
(* The parser rejects a malformed marked section ("<![" that is no CDATA   *)
(* or conditional comment); [raised |-> TRUE] stands for that exception.   *)
(***************************************************************************)
\* lines 44-47: the text nodes outside script and style
RECURSIVE text_nodes(_)
text_nodes(html) ==
    LET open  == Find(html, "<", 1)
        close == Find(html, ">", open + 1)
        tag   == lower(SubSeq(html, open + 1, close - 1))
        etag  == "</" \o tag \o ">"
        stop  == Find(lower(html), etag, close + 1)
    IN  IF open = 0 \/ close = 0 THEN <<html>>
        ELSE IF tag \in {"script", "style"}
        THEN <<SubSeq(html, 1, open - 1)>> \o
             (IF stop = 0 THEN <<>> ELSE text_nodes(From(html, stop + Len(etag))))
        ELSE <<SubSeq(html, 1, open - 1)>> \o text_nodes(From(html, close + 1))

\* line 47: get_text(" ", strip=True)
RECURSIVE get_text(_)
get_text(nodes) ==
    IF nodes = <<>> THEN <<>>
    ELSE (IF strip(nodes[1]) = "" THEN <<>> ELSE <<strip(nodes[1])>>) \o get_text(Tail(nodes))

\* line 48: re.sub(r"\s+", " ", text)
RECURSIVE collapse_whitespace(_)
collapse_whitespace(s) ==
    IF s = "" THEN ""
    ELSE IF IsSpace(Head(s)) THEN " " \o collapse_whitespace(lstrip(s))
    ELSE Head(s) \o collapse_whitespace(Tail(s))

parse_and_clean(html) ==
    IF In("<![", html) THEN [raised |-> TRUE]
    ELSE [raised |-> FALSE,
          value |-> strip(collapse_whitespace(join(get_text(text_nodes(html)), " ")))]

\* The markup the modelled feeds and pages carry: feed entries ("" is an
\* absent field) and page answers (what requests.get gives for a link).
Entry(t, l, s, d, p, u) ==
    [title |-> t, link |-> l, summary |-> s, description |-> d, published |-> p, updated |-> u]

Entries ==
    { Entry(" Deal A ", " https://a.fr/x?k ", "<p>Big  SALE</p>", "", "2024-01-02", ""),
      Entry("   ", "https://c.de/y", "deal", "", "2024-01-03", ""),
      Entry("Deal C", "", "deal", "", "2024-01-04", ""),
      Entry("News", "https://c.de/n", "", "<b>Promo</b> now", "", "2024-01-01"),
      Entry("Meteo", "https://c.de/m", "rain", "", "", ""),
      Entry("Deal B", "https://c.de/b", "<p>x <![bad", "", "2024-01-05", "") }

PageAnswers ==
    { [kind |-> "raised", ok |-> FALSE, text |-> ""],
      [kind |-> "response", ok |-> FALSE, text |-> "<p>Page not found</p>"],
      [kind |-> "response", ok |-> TRUE, text |-> "<p>tiny</p>"],
      [kind |-> "response", ok |-> TRUE, text |-> "<p>Promo</p><b>!!!</b>"],
      [kind |-> "response", ok |-> TRUE, text |-> "<script>x</script><p>A long page</p>"],
      [kind |-> "response", ok |-> TRUE, text |-> "<p>A long page <![bad"] }

\* clean_text of the markup above is computed once
CleanedMarkup ==
    [h \in {IF e.summary # "" THEN e.summary ELSE e.description : e \in Entries}
              \cup {r.text : r \in PageAnswers} |-> parse_and_clean(h)]

clean_text(html) ==
    IF html \in DOMAIN CleanedMarkup THEN CleanedMarkup[html] ELSE parse_and_clean(html)

(***************************************************************************)
(* fetch_posts (build.py:105-140)                                          *)
(*                                                                         *)
(* A feed answer is what feedparser.parse gives for a URL: it raises, or   *)
(* it is a feed with a header and entries.  In an entry "" stands for an   *)
(* absent field (e.get(..., "") reads both alike).  A page answer is what  *)
(* requests.get gives for an entry's link.                                 *)
(***************************************************************************)
\* line 113
entry_summary(e) == IF e.summary # "" THEN e.summary ELSE e.description

\* line 135
entry_published(e) == IF e.published # "" THEN e.published ELSE e.updated

\* line 136
feed_source(f) == IF f.has_title THEN f.title ELSE "Unknown"

\* line 120 with the keyword compared as written
keyword_hit_as_written(keywords, hay) == \E i \in DOMAIN keywords : In(keywords[i], hay)

\* line 120
keyword_hit(keywords, hay) == \E i \in DOMAIN keywords : In(lower(keywords[i]), hay)

\* lines 115-121: whether the entry goes on to be emitted
keeps_entry(title, link, content, keywords) ==
    /\ title # "" /\ link # ""
    /\ keywords = <<>> \/ keyword_hit(keywords, lower(title \o " " \o content))

\* lines 123-130 with >= for >
enriched_content_or_equal(content, resp) ==
    LET page == IF resp.kind = "raised" \/ ~resp.ok THEN [raised |-> TRUE]
                ELSE clean_text(resp.text)
    IN  IF ~page.raised /\ Len(page.value) >= Len(content) THEN page.value ELSE content

\* lines 123-130: the content after the enrichment fetch; requests.get or
\* clean_text raising leaves it as it was (line 129)
enriched_content(content, resp) ==
    LET page == IF resp.kind = "raised" \/ ~resp.ok THEN [raised |-> TRUE]
                ELSE clean_text(resp.text)
    IN  IF ~page.raised /\ Len(page.value) > Len(content) THEN page.value ELSE content

\* lines 131-137
raw_post(title, link, content, published, source) ==
    [title |-> title, link |-> link, content |-> content, published |-> published,
     source |-> source]

(***************************************************************************)
(* The ingestor: the configured feeds answer as the world decides, the     *)
(* pages answer when they are fetched.                                     *)
(***************************************************************************)
MaxEntries == 2

FeedRaised == [raised |-> TRUE, has_title |-> FALSE, title |-> "", entries |-> <<>>]

FeedAnswers(has_title) ==
    {FeedRaised} \cup
    {[raised |-> FALSE, has_title |-> has_title, title |-> IF has_title THEN "Blog" ELSE "",
      entries |-> es] : es \in SeqsUpTo(Entries, MaxEntries)}

\* what the two configured feeds serve, MaxEntries entries at most in all
Worlds ==
    {w \in FeedAnswers(TRUE) \X FeedAnswers(FALSE) :
        Len(w[1].entries) + Len(w[2].entries) <= MaxEntries}

NoPage == [kind |-> "none", ok |-> FALSE, text |-> ""]

FetchAffiliateMap == << <<"a.fr", "t=1">> >>

FetchConfigs ==
    {[affiliate_map |-> FetchAffiliateMap, keywords |-> k,
      feeds |-> <<"https://f1/rss", "https://f2/rss">>,
      has_daily_post_limit |-> TRUE, daily_post_limit |-> 12] :
        k \in {<<>>, <<"DEAL", "promo">>}}

\* line 133
affiliate_link(link, config) == normalize_url_with_affiliate(link, config)

NoFeed == [raised |-> FALSE, has_title |-> FALSE, title |-> "", entries |-> <<>>]

InitFetch ==
    /\ pc = "feeds"
    /\ CONFIG \in FetchConfigs
    /\ args = [fn |-> "fetch_posts"]
    /\ env \in {[world |-> w, response |-> NoPage] : w \in Worlds}
    /\ ret = <<>>
    /\ items = <<>>
    /\ feed = NoFeed
    /\ fi = 1
    /\ ei = 0
    /\ posts = <<>>

\* line 109 raises; line 138 catches: the next feed
FeedRaises ==
    /\ pc = "feeds" /\ fi <= Len(CONFIG.feeds)
    /\ env.world[fi].raised
    /\ fi' = fi + 1
    /\ UNCHANGED <<pc, CONFIG, args, env, ret, items, feed, ei, posts>>

\* line 109
FeedParsed ==
    /\ pc = "feeds" /\ fi <= Len(CONFIG.feeds)
    /\ ~env.world[fi].raised
    /\ feed' = env.world[fi]
    /\ ei' = 1
    /\ pc' = "entries"
    /\ UNCHANGED <<CONFIG, args, env, ret, items, fi, posts>>

\* lines 111-114 raise on the entry; the only handler around them is the
\* feed's, line 138: the next feed
EntryRaises ==
    /\ pc = "entries" /\ ei <= Len(feed.entries)
    /\ clean_text(entry_summary(feed.entries[ei])).raised
    /\ pc' = "feeds"
    /\ fi' = fi + 1
    /\ env' = [env EXCEPT !.response = NoPage]
    /\ UNCHANGED <<CONFIG, args, ret, items, feed, ei, posts>>

\* lines 115-121: continue
EntrySkipped ==
    /\ pc = "entries" /\ ei <= Len(feed.entries)
    /\ LET e == feed.entries[ei]
           c == clean_text(entry_summary(e))
       IN  /\ ~c.raised
           /\ ~keeps_entry(strip(e.title), strip(e.link), c.value, CONFIG.keywords)
    /\ ei' = ei + 1
    /\ env' = [env EXCEPT !.response = NoPage]
    /\ UNCHANGED <<pc, CONFIG, args, ret, items, feed, fi, posts>>

\* lines 122-137
EntryKept ==
    /\ pc = "entries" /\ ei <= Len(feed.entries)
    /\ LET e    == feed.entries[ei]
           c    == clean_text(entry_summary(e))
           link == affiliate_link(strip(e.link), CONFIG)
       IN  /\ ~c.raised
           /\ keeps_entry(strip(e.title), strip(e.link), c.value, CONFIG.keywords)
           /\ \E resp \in PageAnswers :
                 /\ env' = [env EXCEPT !.response = resp]
                 /\ items' = Append(items, raw_post(strip(e.title), link,
                                                    enriched_content(c.value, resp),
                                                    entry_published(e), feed_source(feed)))
    /\ ei' = ei + 1
    /\ UNCHANGED <<pc, CONFIG, args, ret, feed, fi, posts>>

\* line 110: the entries are exhausted
FeedExhausted ==
    /\ pc = "entries" /\ ei > Len(feed.entries)
    /\ pc' = "feeds"
    /\ fi' = fi + 1
    /\ env' = [env EXCEPT !.response = NoPage]
    /\ UNCHANGED <<CONFIG, args, ret, items, feed, ei, posts>>

\* line 140
ReturnItems ==
    /\ pc = "feeds" /\ fi > Len(CONFIG.feeds)
    /\ ret' = items
    /\ pc' = "done"
    /\ UNCHANGED <<CONFIG, args, env, items, feed, fi, ei, posts>>

NextFetch ==
    \/ FeedRaises \/ FeedParsed \/ EntryRaises \/ EntrySkipped \/ EntryKept
    \/ FeedExhausted \/ ReturnItems

SpecFetch == InitFetch /\ [][NextFetch]_vars
\* What the claims say of an entry.
FeedContent(e) == clean_text(entry_summary(e)).value

Raises(e) == clean_text(entry_summary(e)).raised

WellFormed(e) == strip(e.title) # "" /\ strip(e.link) # ""

MatchesKeywords(e) ==
    \/ CONFIG.keywords = <<>>
    \/ \E k \in Range(CONFIG.keywords) : ContainsCI(strip(e.title) \o " " \o FeedContent(e), k)

Eligible(e) == ~Raises(e) /\ WellFormed(e) /\ MatchesKeywords(e)

NoErrors ==
    \A f \in DOMAIN env.world :
        /\ ~env.world[f].raised
        /\ \A j \in DOMAIN env.world[f].entries : ~Raises(env.world[f].entries[j])

\* the <<title, source>> of the eligible entries of a feed, in entry order
EligibleOf(f) ==
    LET kept == SelectSeq(f.entries, Eligible)
    IN  [i \in DOMAIN kept |-> <<strip(kept[i].title), feed_source(f)>>]

C8_EmittedIffEligible ==
    (pc = "done" /\ NoErrors) =>
        /\ [i \in DOMAIN ret |-> <<ret[i].title, ret[i].source>>]
              = EligibleOf(env.world[1]) \o EligibleOf(env.world[2])
        /\ \A i \in DOMAIN ret : ret[i].title # "" /\ ret[i].link # ""

C8_Witness ==
    /\ pc = "done" /\ NoErrors
    /\ CONFIG.keywords # <<>>
    /\ Len(env.world[1].entries) = 1 /\ Len(env.world[2].entries) = 1
    /\ WellFormed(env.world[1].entries[1]) /\ ~MatchesKeywords(env.world[1].entries[1])
    /\ Len(ret) = 1
    /\ ret[1].source = "Unknown"
    /\ ~In("deal", ret[1].title)

\* what the claim says the stored content is, given the page answer
StoredContent(e, resp) ==
    IF /\ resp.kind = "response" /\ resp.ok
       /\ ~clean_text(resp.text).raised
       /\ Len(clean_text(resp.text).value) > Len(FeedContent(e))
    THEN clean_text(resp.text).value
    ELSE FeedContent(e)

\* C10: a kept entry is emitted whatever the enrichment fetch does; its
\* content is the page text only when the fetch answered OK with a strictly
\* longer normalized text, and the feed-supplied summary otherwise.
C10_EnrichmentOnlyWhenLonger ==
    [][(pc = "entries" /\ ei <= Len(feed.entries) /\ Eligible(feed.entries[ei])) =>
          /\ Len(items') = Len(items) + 1
          /\ items'[Len(items')].content = StoredContent(feed.entries[ei], env'.response)]_vars

C10_Witness ==
    /\ pc = "entries" /\ ei > 1 /\ items # <<>>
    /\ Eligible(feed.entries[ei - 1])
    /\ env.response.kind = "response" /\ env.response.ok
    /\ ~clean_text(env.response.text).raised
    /\ Len(clean_text(env.response.text).value) = Len(FeedContent(feed.entries[ei - 1]))
    /\ clean_text(env.response.text).value # FeedContent(feed.entries[ei - 1])
    /\ items[Len(items)].content = FeedContent(feed.entries[ei - 1])

(***************************************************************************)
(* render_site (build.py:142-171)                                          *)
(***************************************************************************)
DefaultDailyLimit == 12
SlugLimit == 60

\* the characters of the modelled timestamps, by code point
CodePointOrder == " ,-0123456789:" \o UpperChars \o LowerChars

Ord(c) == Find(CodePointOrder, c, 1)

\* a < b on str
str_lt(a, b) ==
    \/ Len(a) < Len(b) /\ SubSeq(b, 1, Len(a)) = a
    \/ \E i \in 1..(IF Len(a) < Len(b) THEN Len(a) ELSE Len(b)) :
          /\ SubSeq(a, 1, i - 1) = SubSeq(b, 1, i - 1)
          /\ Ord(At(a, i)) < Ord(At(b, i))

\* line 148: CONFIG.get("daily_post_limit", 12) or 12
daily_limit(config) ==
    IF ~config.has_daily_post_limit \/ config.daily_post_limit = 0
    THEN DefaultDailyLimit ELSE config.daily_post_limit

\* line 149: sorted(..., reverse=True) is stable: x goes after the posts
\* that are not smaller than it
insert_by_published(sorted, x) ==
    LET before == {i \in DOMAIN sorted : ~str_lt(sorted[i].published, x.published)}
        k      == IF before = {} THEN 0 ELSE CHOOSE i \in before : \A j \in before : j <= i
    IN  SubSeq(sorted, 1, k) \o <<x>> \o SubSeq(sorted, k + 1, Len(sorted))

RECURSIVE sort_by_published(_, _)
sort_by_published(sorted, rest) ==
    IF rest = <<>> THEN sorted
    ELSE sort_by_published(insert_by_published(sorted, rest[1]), Tail(rest))

\* line 149: [:daily_limit], also for a negative limit
take(seq, n) ==
    IF n >= 0 THEN SubSeq(seq, 1, IF n < Len(seq) THEN n ELSE Len(seq))
    ELSE SubSeq(seq, 1, IF Len(seq) + n > 0 THEN Len(seq) + n ELSE 0)

\* line 149
select_posts(all, config) == take(sort_by_published(<<>>, all), daily_limit(config))

\* lines 151-168: the descriptor of one post
rendered_post(it, api_key, response) ==
    LET ai   == ai_summarize(it.title, it.content, api_key, response).value
        slug == Slice(slugify(ai[1]), SlugLimit)
    IN  [title |-> ai[1], href |-> "posts/" \o slug \o ".html", summary |-> ai[2]]

(***************************************************************************)
(* The renderer: a list of RawPosts, a daily limit and a credential are    *)
(* drawn; the remote service is down, or answers with a title made from    *)
(* the source title.                                                       *)
(***************************************************************************)
MaxPosts == 3

Post(t, p) ==
    [title |-> t, link |-> "https://c.de/" \o t, content |-> "Text of " \o t \o ".",
     published |-> p, source |-> "Blog"]

RawPosts ==
    { Post("A", ""), Post("B", "2024-01-02"), Post("C", "2024-01-02"), Post("D", "2024-01-10") }

ManyPosts == [i \in 1..(DefaultDailyLimit + 1) |-> Post("P", IF i % 2 = 0 THEN "" ELSE "2024-02-01")]

RenderInputs == SeqsUpTo(RawPosts, MaxPosts) \cup {ManyPosts}

RenderConfigs ==
    {[NoConfig EXCEPT !.has_daily_post_limit = FALSE]}
      \cup {[NoConfig EXCEPT !.daily_post_limit = n] : n \in 0..MaxPosts}

\* the remote answer for a source title
service_answer(service, title) ==
    IF service = "down" THEN [kind |-> "timeout", content |-> ""]
    ELSE [kind |-> "ok", content |-> "Top " \o title \o "\n\nResume."]

InitRender ==
    /\ pc = "sort"
    /\ CONFIG \in RenderConfigs
    /\ args \in {[items |-> l] : l \in RenderInputs}
    /\ env \in {[api_key |-> k, service |-> v] :
                   k \in {"", "sk-key"}, v \in {"down", "up"}}
    /\ ret = [written |-> {}, index |-> <<>>]
    /\ items = args.items
    /\ feed = None /\ fi = 0 /\ ei = 0
    /\ posts = <<>>

\* lines 147-149
SortAndLimit ==
    /\ pc = "sort"
    /\ items' = select_posts(items, CONFIG)
    /\ ei' = 1
    /\ pc' = "posts"
    /\ UNCHANGED <<CONFIG, args, env, ret, feed, fi, posts>>

\* lines 150-168: one post is summarized, written and listed
RenderPost ==
    /\ pc = "posts" /\ ei <= Len(items)
    /\ LET p == rendered_post(items[ei], env.api_key, service_answer(env.service, items[ei].title))
       IN  /\ posts' = Append(posts, p)
           /\ ret' = [ret EXCEPT !.written = @ \cup {p.href}]
    /\ ei' = ei + 1
    /\ UNCHANGED <<pc, CONFIG, args, env, items, feed, fi>>

\* lines 170-171
WriteIndex ==
    /\ pc = "posts" /\ ei > Len(items)
    /\ ret' = [ret EXCEPT !.written = @ \cup {"index.html"}, !.index = posts]
    /\ pc' = "done"
    /\ UNCHANGED <<CONFIG, args, env, items, feed, fi, ei, posts>>

NextRender == SortAndLimit \/ RenderPost \/ WriteIndex

SpecRender == InitRender /\ [][NextRender]_vars

\* What the claim says: the limit as configured (12 when none is), and the
\* selection as the head of the list in descending order of published.
ConfiguredLimit ==
    IF CONFIG.has_daily_post_limit THEN CONFIG.daily_post_limit ELSE DefaultDailyLimit

Occurrences(seq, x) == Cardinality({i \in DOMAIN seq : seq[i] = x})

IsHeadOfDescending(sel, all) ==
    /\ \A i \in 1..(Len(sel) - 1) : ~str_lt(sel[i].published, sel[i + 1].published)
    /\ \A x \in Range(all) : Occurrences(sel, x) <= Occurrences(all, x)
    /\ \A x \in Range(all) :
          Occurrences(sel, x) < Occurrences(all, x) =>
              \A i \in DOMAIN sel : ~str_lt(sel[i].published, x.published)
    /\ Range(sel) \subseteq Range(all)

\* C9: the index lists, one entry per post and in order, exactly the first
\* min(L, number of posts) posts of the list sorted by published descending.
C9_IndexListsTopPosts ==
    pc = "done" =>
        /\ Len(items) = (IF ConfiguredLimit < Len(args.items)
                         THEN ConfiguredLimit ELSE Len(args.items))
        /\ IsHeadOfDescending(items, args.items)
        /\ Len(ret.index) = Len(items)
        /\ \A i \in DOMAIN items :
              ret.index[i] = rendered_post(items[i], env.api_key,
                                           service_answer(env.service, items[i].title))

====
